---- MODULE Spec2Model ----
(***************************************************************************)
(* csv_splitter (src/src/main.rs): the streaming chunk pipeline.           *)
(*                                                                         *)
(* main counts the lines of the input, seeds the shared list of output     *)
(* file indices, then for every batch the CsvChunkReader yields: applies   *)
(* the configured column transformations, spawns one writer thread per     *)
(* sub-chunk of num_lines_output_file rows, and joins them.  A writer      *)
(* slices its rows, pops the first index under the mutex, creates the      *)
(* file of that index and writes its rows.                                 *)
(*                                                                         *)
(* The input is a header line followed by data rows with the columns id    *)
(* and name; a data row is modelled as [row |-> position, name |-> cell].  *)
(* A cell is a sequence of characters, or Null.                            *)
(***************************************************************************)
EXTENDS Integers, Sequences, FiniteSets, TLC

(***************************************************************************)
(* Bounds of the model.                                                    *)
(***************************************************************************)
\* Largest number of data rows of the input file.
MaxRows == 5
\* Largest --num-lines-output-file.
MaxLinesPerFile == 2
\* main.rs:99 multiplies num_lines_output_file by 14 to get the batch size.
\* The model keeps the multiplier as a parameter and checks small values of
\* it, so that inputs of a few rows already span several batches and the
\* interleavings of one batch's writer threads stay enumerable.
BatchFactor == 2
\* Largest number of I/O faults (read error, create error, write error) the
\* environment injects into one run.
MaxFaults == 1
\* Allocator harness: largest seed 1..N and largest number of take() callers.
MaxSeed == 3
MaxCallers == 4

VARIABLES
    csv_rows,               \* the data rows of the input file, in file order
    num_lines_output_file,  \* args.num_lines_output_file
    transformations,        \* the HashMap kind -> column names (main.rs:83)
    shared_indexes,         \* the Vec behind Arc<Mutex<..>> (main.rs:110)
    lock,                   \* the set of threads holding the mutex (0 or 1)
    skip_rows,              \* CsvChunkReader.skip_rows
    df,                     \* the batch being processed
    pc,                     \* position of the main thread
    i,                      \* next sub-chunk to spawn / next handle to join
    threads,                \* the writer threads of the current batch
    files,                  \* output directory: index -> file content
    result,                 \* what main returned: "running", "Ok", "Err"
    faults,                 \* I/O faults injected so far
    panics,                 \* history: writer threads that panicked
    read_error,             \* history: next_chunk returned Err
    drawn,                  \* history: the index_value of every pop, in order
    batch_no                \* history: batches the reader has yielded so far

vars == <<csv_rows, num_lines_output_file, transformations, shared_indexes,
          lock, skip_rows, df, pc, i, threads, files, result, faults,
          panics, read_error, drawn, batch_no>>

Min(a, b) == IF a < b THEN a ELSE b

(***************************************************************************)
(* Cells and the four text transformations.                                *)
(* Characters: a, A, and a', A' standing for the accented letters U+00E1   *)
(* and U+00C1, and the blank.                                              *)
(***************************************************************************)
Null == <<"NULL">>

\* The cells of the name column of the modelled inputs: row r of the file
\* holds SampleCells[r], cyclically.
SampleCells ==
    << <<"a", "a">>,
       Null,
       <<"a'", "A">>,
       <<"a", " ", "a">> >>

cell_of(r) == SampleCells[((r - 1) % Len(SampleCells)) + 1]

\* char::to_uppercase / to_lowercase (Unicode), as polars' str().to_uppercase()
\* and str().to_lowercase() apply them to every character.
upper_char(c) ==
    CASE c = "a" -> "A" [] c = "a'" -> "A'" [] OTHER -> c

lower_char(c) ==
    CASE c = "A" -> "a" [] c = "A'" -> "a'" [] OTHER -> c

\* deunicode: the closest ASCII character.
deunicode_char(c) ==
    CASE c = "a'" -> "a" [] c = "A'" -> "A" [] OTHER -> c

to_uppercase(s) == [k \in 1..Len(s) |-> upper_char(s[k])]

to_lowercase(s) == [k \in 1..Len(s) |-> lower_char(s[k])]

deunicode(s) == [k \in 1..Len(s) |-> deunicode_char(s[k])]

\* Inflector's to_title_case: to_case_camel_like with new_word = true,
\* first_word = true, last_char = ' ', injectable_char = ' ', has_seperator.
is_alphanumeric(c) == c # " "
is_lowercase(c) == c \in {"a", "a'"}
is_uppercase(c) == c \in {"A", "A'"}
to_ascii_uppercase(c) == IF c = "a" THEN "A" ELSE c
to_ascii_lowercase(c) == IF c = "A" THEN "a" ELSE c

RECURSIVE trim_right(_)
trim_right(s) ==
    IF s = <<>> \/ is_alphanumeric(s[Len(s)]) THEN s
    ELSE trim_right(SubSeq(s, 1, Len(s) - 1))

RECURSIVE camel_like(_, _, _, _, _, _, _)
camel_like(s, k, new_word, first_word, last_char, found_real_char, res) ==
    IF k > Len(s) THEN res
    ELSE LET c == s[k] IN
      IF ~is_alphanumeric(c) /\ found_real_char
        THEN camel_like(s, k + 1, TRUE, first_word, last_char, found_real_char, res)
      ELSE IF ~found_real_char /\ ~is_alphanumeric(c)
        THEN camel_like(s, k + 1, new_word, first_word, last_char, found_real_char, res)
      ELSE IF new_word \/ (is_lowercase(last_char) /\ is_uppercase(c) /\ last_char # " ")
        THEN camel_like(s, k + 1, FALSE, FALSE, last_char, TRUE,
                        res \o (IF first_word THEN <<>> ELSE <<" ">>)
                            \o <<to_ascii_uppercase(c)>>)
      ELSE camel_like(s, k + 1, new_word, first_word, c, TRUE,
                      res \o <<to_ascii_lowercase(c)>>)

to_title_case(s) == camel_like(trim_right(s), 1, TRUE, TRUE, " ", FALSE, <<>>)

Kinds == {"to_uppercase", "to_lowercase", "to_normalized", "to_titlecase"}

\* The function one kind applies to a non-null value of the column.
kind_function(key, s) ==
    CASE key = "to_uppercase" -> to_uppercase(s)
      [] key = "to_lowercase" -> to_lowercase(s)
      [] key = "to_normalized" -> deunicode(s)
      [] key = "to_titlecase" -> to_title_case(s)

\* opt_s.map(f): a null stays null.
map_opt(key, cell) == IF cell = Null THEN Null ELSE kind_function(key, cell)

\* The columns of the input's header.  id is numeric, name is text.
Columns == {"id", "name"}
\* The column lists a --to-... option is given in the model.
ColumnLists == { <<"name">>, <<"ghost">> }

\* One kind over its list of columns: `for column in &columns { ... ? }`.
\* [ok |-> FALSE] is the ColumnNotFound error that `?` returns from main.
RECURSIVE apply_columns(_, _, _, _)
apply_columns(key, columns, k, frame) ==
    IF k > Len(columns) THEN [ok |-> TRUE, df |-> frame]
    ELSE IF columns[k] \notin Columns THEN [ok |-> FALSE, df |-> frame]
    ELSE apply_columns(key, columns, k + 1,
            [r \in 1..Len(frame) |->
                [frame[r] EXCEPT !.name = map_opt(key, @)]])

\* `for (key, columns) in transformations.clone()` in the iteration order
\* `order` of the HashMap.
RECURSIVE apply_kinds(_, _, _, _)
apply_kinds(order, k, map, frame) ==
    IF k > Len(order) THEN [ok |-> TRUE, df |-> frame]
    ELSE LET r == apply_columns(order[k], map[order[k]], 1, frame) IN
         IF r.ok THEN apply_kinds(order, k + 1, map, r.df) ELSE r

\* A std HashMap iterates in an order that depends on its random hasher:
\* every order of the keys present.
IterationOrders(map) ==
    LET n == Cardinality(DOMAIN map) IN
    { o \in [1..n -> DOMAIN map] : \A a, b \in 1..n : a # b => o[a] # o[b] }

(***************************************************************************)
(* Sizes.                                                                  *)
(***************************************************************************)
\* count_csv_lines: every line of the file, the header line included.
count_csv_lines(rows) == Len(rows) + 1

\* (a / b).ceil() as usize, for b >= 1.
get_number_csv_files(number_lines_input_file, number_lines_output_file) ==
    (number_lines_input_file + number_lines_output_file - 1)
        \div number_lines_output_file

num_lines_input_file == count_csv_lines(csv_rows)

\* A batch size that is no multiple of the rows per file.
chunck_size_short == num_lines_output_file * BatchFactor - 1

chunck_size == num_lines_output_file * BatchFactor

num_csv_files == get_number_csv_files(num_lines_input_file, num_lines_output_file)

\* An index list that misses its last index: (1..num_csv_files).
indexes_file_names_short(n) == [k \in 1..(n - 1) |-> k]

\* An index list in descending order.
indexes_file_names_rev(n) == [k \in 1..n |-> n - k + 1]

indexes_file_names(n) == [k \in 1..n |-> k]

\* A reader that takes the header line for a data row (has_header off).
read_rows_header_as_row(rows, skip, n) ==
    SubSeq(<<[row |-> 0 - 1, name |-> <<"a">>]>>
             \o [r \in 1..Len(rows) |-> [row |-> r - 1, name |-> rows[r]]],
           skip + 1, Min(skip + n, Len(rows) + 1))

\* A reader that yields one row more than asked for.
read_rows_one_more(rows, skip, n) ==
    SubSeq([r \in 1..Len(rows) |-> [row |-> r - 1, name |-> rows[r]]],
           skip + 1, Min(skip + n + 1, Len(rows)))

\* The rows LazyCsvReader yields: skip `skip` rows after the header, then at
\* most `n` rows.
read_rows(rows, skip, n) ==
    SubSeq([r \in 1..Len(rows) |-> [row |-> r - 1, name |-> rows[r]]],
           skip + 1, Min(skip + n, Len(rows)))

\* Writer thread: the bounds of its slice of the batch.
slice_start(t, chunk_size) == t * chunk_size

\* A slice end that stops one row early.
slice_end_short(t, chunk_size, height) == Min((t + 1) * chunk_size, height) - 1

slice_end(t, chunk_size, height) == Min((t + 1) * chunk_size, height)

\* df.slice(offset, length)
slice(frame, offset, length) == SubSeq(frame, offset + 1, offset + length)

\* The allocator: Vec::is_empty / Vec::remove(0).  None is 0, Some(n) is n.
None == 0

\* A pop from the wrong end: Vec::pop() instead of Vec::remove(0).
last_index(data) == data[Len(data)]

first_index(data) == data[1]

\* A read of the first index that leaves it in the list.
keep_first(data) == data

remove_first(data) == Tail(data)

(***************************************************************************)
(* Initial states: the command line and the input file.                    *)
(***************************************************************************)
TransformationMaps ==
    UNION { [S -> ColumnLists] : S \in SUBSET Kinds }

NoThreads == [t \in {} |-> {}]
NoFiles == [n \in {} |-> {}]

Init ==
    /\ \E n \in 0..MaxRows : csv_rows = [r \in 1..n |-> cell_of(r)]
    /\ num_lines_output_file \in 1..MaxLinesPerFile
    /\ transformations \in TransformationMaps
    /\ shared_indexes = <<>>
    /\ lock = {}
    /\ skip_rows = 0
    /\ df = <<>>
    /\ pc = "setup"
    /\ i = 0
    /\ threads = NoThreads
    /\ files = NoFiles
    /\ result = "running"
    /\ faults = 0
    /\ panics = 0
    /\ read_error = FALSE
    /\ drawn = <<>>
    /\ batch_no = 0

(***************************************************************************)
(* The main thread.                                                        *)
(***************************************************************************)
\* main.rs:98-110: count the lines, build the reader and the index list.
Setup ==
    /\ pc = "setup"
    /\ shared_indexes' = indexes_file_names(num_csv_files)
    /\ skip_rows' = 0
    /\ pc' = "next"
    /\ UNCHANGED <<csv_rows, num_lines_output_file, transformations, lock, df,
                   i, threads, files, result, faults, panics, read_error, drawn,
                   batch_no>>

\* Iterator::next, Ok(df) with rows: the loop body runs on the batch.
NextBatch ==
    /\ pc = "next"
    /\ LET batch == read_rows(csv_rows, skip_rows, chunck_size) IN
        /\ Len(batch) > 0
        /\ df' = batch
    /\ skip_rows' = skip_rows + chunck_size
    /\ pc' = "transform"
    /\ batch_no' = batch_no + 1
    /\ UNCHANGED <<csv_rows, num_lines_output_file, transformations,
                   shared_indexes, lock, i, threads, files, result, faults,
                   panics, read_error, drawn>>

\* Iterator::next, Ok(df) of height 0: None, the loop ends and main returns Ok.
NextEnd ==
    /\ pc = "next"
    /\ Len(read_rows(csv_rows, skip_rows, chunck_size)) = 0
    /\ skip_rows' = skip_rows + chunck_size
    /\ pc' = "done"
    /\ result' = "Ok"
    /\ UNCHANGED <<csv_rows, num_lines_output_file, transformations,
                   shared_indexes, lock, df, i, threads, files, faults,
                   panics, read_error, drawn,
                   batch_no>>

\* Iterator::next, Err(_) => None: the loop ends and main returns Ok.  The
\* error comes from finish() (cursor not advanced) or from collect().
NextError ==
    /\ pc = "next"
    /\ faults < MaxFaults
    /\ faults' = faults + 1
    /\ \E advanced \in BOOLEAN :
        skip_rows' = IF advanced THEN skip_rows + chunck_size ELSE skip_rows
    /\ read_error' = TRUE
    /\ pc' = "done"
    /\ result' = "Ok"
    /\ UNCHANGED <<csv_rows, num_lines_output_file, transformations,
                   shared_indexes, lock, df, i, threads, files, panics, drawn,
                   batch_no>>

\* main.rs:123-176: the transformations of one batch.
Transform ==
    /\ pc = "transform"
    /\ \E order \in IterationOrders(transformations) :
        LET r == apply_kinds(order, 1, transformations, df) IN
        IF r.ok
          THEN /\ df' = r.df
               /\ pc' = "spawn"
               /\ result' = result
          ELSE /\ df' = df
               /\ pc' = "done"
               /\ result' = "Err"
    /\ i' = 0
    /\ UNCHANGED <<csv_rows, num_lines_output_file, transformations,
                   shared_indexes, lock, skip_rows, threads, files, faults,
                   panics, read_error, drawn,
                   batch_no>>

chunk_size == num_lines_output_file

\* A sub-chunk count taken from the whole input instead of the batch.
total_chunks_whole_input == get_number_csv_files(Len(csv_rows), chunk_size)

total_chunks == get_number_csv_files(Len(df), chunk_size)

\* main.rs:191-244: thread::spawn for sub-chunk i.
Spawn ==
    /\ pc = "spawn"
    /\ i < total_chunks
    /\ threads' = (i :> [pc |-> "slice", chunk |-> <<>>, index_value |-> None])
                    @@ threads
    /\ i' = i + 1
    /\ UNCHANGED <<csv_rows, num_lines_output_file, transformations,
                   shared_indexes, lock, skip_rows, df, pc, files, result,
                   faults, panics, read_error, drawn,
                   batch_no>>

SpawnEnd ==
    /\ pc = "spawn"
    /\ i = total_chunks
    /\ pc' = "join"
    /\ i' = 0
    /\ UNCHANGED <<csv_rows, num_lines_output_file, transformations,
                   shared_indexes, lock, skip_rows, df, threads, files, result,
                   faults, panics, read_error, drawn,
                   batch_no>>

\* A join that returns without waiting for the thread to end.
JoinNoWait ==
    /\ pc = "join"
    /\ i < total_chunks
    /\ i' = i + 1
    /\ UNCHANGED <<csv_rows, num_lines_output_file, transformations,
                   shared_indexes, lock, skip_rows, df, pc, threads, files,
                   result, faults, panics, read_error, drawn, batch_no>>

\* main.rs:247-250: `let _ = handle.join()` returns once the thread has ended,
\* and its Ok or Err (the thread panicked) is dropped.
Join ==
    /\ pc = "join"
    /\ i < total_chunks
    /\ threads[i].pc \in {"done", "panicked"}
    /\ i' = i + 1
    /\ UNCHANGED <<csv_rows, num_lines_output_file, transformations,
                   shared_indexes, lock, skip_rows, df, pc, threads, files,
                   result, faults, panics, read_error, drawn,
                   batch_no>>

JoinEnd ==
    /\ pc = "join"
    /\ i = total_chunks
    /\ threads' = NoThreads
    /\ df' = <<>>
    /\ i' = 0
    /\ pc' = "next"
    /\ UNCHANGED <<csv_rows, num_lines_output_file, transformations,
                   shared_indexes, lock, skip_rows, files, result, faults,
                   panics, read_error, drawn,
                   batch_no>>

(***************************************************************************)
(* A writer thread t (main.rs:208-241).                                    *)
(***************************************************************************)
\* main.rs:209-211
Slice(t) ==
    /\ threads[t].pc = "slice"
    /\ LET start == slice_start(t, chunk_size)
           end == slice_end(t, chunk_size, Len(df))
       IN threads' = [threads EXCEPT ![t].chunk = slice(df, start, end - start),
                                     ![t].pc = "lock"]
    /\ UNCHANGED <<csv_rows, num_lines_output_file, transformations,
                   shared_indexes, lock, skip_rows, df, pc, i, files, result,
                   faults, panics, read_error, drawn,
                   batch_no>>

\* main.rs:214: shared_indexes.lock().unwrap()
Lock(t) ==
    /\ threads[t].pc = "lock"
    /\ lock = {}
    /\ lock' = {t}
    /\ threads' = [threads EXCEPT ![t].pc = "pop"]
    /\ UNCHANGED <<csv_rows, num_lines_output_file, transformations,
                   shared_indexes, skip_rows, df, pc, i, files, result, faults,
                   panics, read_error, drawn,
                   batch_no>>

\* A pop whose guard outlives the block: the mutex stays locked.
PopKeepsLock(t) ==
    /\ threads[t].pc = "pop"
    /\ lock = {t}
    /\ LET value == IF shared_indexes = <<>> THEN None
                    ELSE first_index(shared_indexes)
       IN /\ threads' = [threads EXCEPT ![t].index_value = value,
                                        ![t].pc = "create"]
          /\ drawn' = Append(drawn, value)
    /\ shared_indexes' = IF shared_indexes = <<>> THEN shared_indexes
                         ELSE remove_first(shared_indexes)
    /\ UNCHANGED <<csv_rows, num_lines_output_file, transformations, lock,
                   skip_rows, df, pc, i, files, result, faults, panics,
                   read_error, batch_no>>

\* main.rs:217-223: is_empty / remove(0); the guard is dropped at the end of
\* the block.
Pop(t) ==
    /\ threads[t].pc = "pop"
    /\ lock = {t}
    /\ LET value == IF shared_indexes = <<>> THEN None
                    ELSE first_index(shared_indexes)
       IN /\ threads' = [threads EXCEPT ![t].index_value = value,
                                        ![t].pc = "create"]
          /\ drawn' = Append(drawn, value)
    /\ shared_indexes' = IF shared_indexes = <<>> THEN shared_indexes
                         ELSE remove_first(shared_indexes)
    /\ lock' = {}
    /\ UNCHANGED <<csv_rows, num_lines_output_file, transformations,
                   skip_rows, df, pc, i, files, result, faults, panics,
                   read_error,
                   batch_no>>

EmptyFile == [header |-> FALSE, rows |-> <<>>]

\* main.rs:226-233: index_value.unwrap() panics on None; otherwise
\* File::create(..) creates or truncates the file of that index.
Create(t) ==
    /\ threads[t].pc = "create"
    /\ IF threads[t].index_value = None
         THEN /\ threads' = [threads EXCEPT ![t].pc = "panicked"]
              /\ panics' = panics + 1
              /\ files' = files
         ELSE /\ threads' = [threads EXCEPT ![t].pc = "write"]
              /\ panics' = panics
              /\ files' = (threads[t].index_value :> EmptyFile) @@ files
    /\ UNCHANGED <<csv_rows, num_lines_output_file, transformations,
                   shared_indexes, lock, skip_rows, df, pc, i, result, faults,
                   read_error, drawn,
                   batch_no>>

\* A create that fails while the thread still holds the mutex guard.
CreateFailsHoldingLock(t) ==
    /\ threads[t].pc = "create"
    /\ threads[t].index_value # None
    /\ faults < MaxFaults
    /\ faults' = faults + 1
    /\ threads' = [threads EXCEPT ![t].pc = "panicked"]
    /\ panics' = panics + 1
    /\ lock' = {t}
    /\ UNCHANGED <<csv_rows, num_lines_output_file, transformations,
                   shared_indexes, skip_rows, df, pc, i, files, result,
                   read_error, drawn, batch_no>>

\* main.rs:233: File::create(..).unwrap() on an error panics.
CreateFails(t) ==
    /\ threads[t].pc = "create"
    /\ threads[t].index_value # None
    /\ faults < MaxFaults
    /\ faults' = faults + 1
    /\ threads' = [threads EXCEPT ![t].pc = "panicked"]
    /\ panics' = panics + 1
    /\ UNCHANGED <<csv_rows, num_lines_output_file, transformations,
                   shared_indexes, lock, skip_rows, df, pc, i, files, result,
                   read_error, drawn,
                   batch_no>>

\* main.rs:236-240: the header and the rows of the slice.
Write(t) ==
    /\ threads[t].pc = "write"
    /\ files' = [files EXCEPT ![threads[t].index_value] =
                    [header |-> TRUE, rows |-> threads[t].chunk]]
    /\ threads' = [threads EXCEPT ![t].pc = "done"]
    /\ UNCHANGED <<csv_rows, num_lines_output_file, transformations,
                   shared_indexes, lock, skip_rows, df, pc, i, result, faults,
                   panics, read_error, drawn,
                   batch_no>>

\* main.rs:240: finish(..).unwrap() on an error panics; the file stays as
\* created.
WriteFails(t) ==
    /\ threads[t].pc = "write"
    /\ faults < MaxFaults
    /\ faults' = faults + 1
    /\ threads' = [threads EXCEPT ![t].pc = "panicked"]
    /\ panics' = panics + 1
    /\ UNCHANGED <<csv_rows, num_lines_output_file, transformations,
                   shared_indexes, lock, skip_rows, df, pc, i, files, result,
                   read_error, drawn,
                   batch_no>>

Writer(t) ==
    \/ Slice(t)
    \/ Lock(t)
    \/ Pop(t)
    \/ Create(t)
    \/ CreateFails(t)
    \/ Write(t)
    \/ WriteFails(t)

Next ==
    \/ Setup
    \/ NextBatch
    \/ NextEnd
    \/ NextError
    \/ Transform
    \/ Spawn
    \/ SpawnEnd
    \/ Join
    \/ JoinEnd
    \/ \E t \in DOMAIN threads : Writer(t)

Spec == Init /\ [][Next]_vars

\* The main thread and the writer threads are operating-system threads: a
\* thread that can take a step is eventually scheduled.
FairSpec == Spec /\ WF_vars(Next)

(***************************************************************************)
(* The allocator alone: callers of the pop block (main.rs:213-223) against *)
(* the index list as main builds it, with no batch bounding their number.  *)
(***************************************************************************)
InitAlloc ==
    /\ \E n \in 0..(MaxSeed - 1) : csv_rows = [r \in 1..n |-> cell_of(r)]
    /\ num_lines_output_file = 1
    /\ transformations = [k \in {} |-> <<>>]
    /\ shared_indexes = indexes_file_names(num_csv_files)
    /\ lock = {}
    /\ skip_rows = 0
    /\ df = <<>>
    /\ pc = "harness"
    /\ i = 0
    /\ \E callers \in 0..MaxCallers :
        threads = [t \in 0..(callers - 1) |->
                      [pc |-> "lock", chunk |-> <<>>, index_value |-> None]]
    /\ files = NoFiles
    /\ result = "running"
    /\ faults = 0
    /\ panics = 0
    /\ read_error = FALSE
    /\ drawn = <<>>
    /\ batch_no = 0

NextAlloc == \E t \in DOMAIN threads : Lock(t) \/ Pop(t)

SpecAlloc == InitAlloc /\ [][NextAlloc]_vars

(***************************************************************************)
(* Properties.                                                             *)
(***************************************************************************)
Range(f) == { f[x] : x \in DOMAIN f }

\* R data rows, K rows per file, and ceil(R / K) computed from its definition.
R == Len(csv_rows)
K == num_lines_output_file
Ceil(a, b) == CHOOSE n \in 0..a : n * b >= a /\ (n = 0 \/ (n - 1) * b < a)
N == Ceil(R, K)

\* main returned Ok after a run in which no writer failed and no read failed.
RunCompleted ==
    pc = "done" /\ result = "Ok" /\ panics = 0 /\ ~read_error

RECURSIVE SumRows(_)
SumRows(S) ==
    IF S = {} THEN 0
    ELSE LET j == CHOOSE x \in S : TRUE
         IN Len(files[j].rows) + SumRows(S \ {j})

FilesHolding(r) ==
    { j \in DOMAIN files : \E k \in 1..Len(files[j].rows) : files[j].rows[k].row = r }

\* C1: at the end of a run without failures the indices of the output files
\* are exactly 1..ceil(R/K), and every index was drawn by exactly one writer.
C1_IndexSet ==
    RunCompleted =>
        /\ DOMAIN files = 1..N
        /\ Len(drawn) = N
        /\ Range(drawn) = 1..N

C1_Witness ==
    /\ RunCompleted
    /\ K = 1
    /\ R = 5
    /\ DOMAIN files = 1..5

\* C2: a run without failures produces exactly ceil(R/K) files, and every
\* input row is in exactly one of them; the files' row counts sum to R.
C2_RowsOnce ==
    RunCompleted =>
        /\ Cardinality(DOMAIN files) = N
        /\ \A r \in 0..(R - 1) : Cardinality(FilesHolding(r)) = 1
        /\ \A j \in DOMAIN files :
            \A k, l \in 1..Len(files[j].rows) :
                files[j].rows[k].row = files[j].rows[l].row => k = l
        /\ SumRows(DOMAIN files) = R

C2_Witness ==
    /\ RunCompleted
    /\ K = 2
    /\ R = 5
    /\ Cardinality(DOMAIN files) = 3
    /\ SumRows(DOMAIN files) = 5

\* C3: at the end of a run every file with an index below N = ceil(R/K) holds
\* exactly K data rows, and file N holds R mod K rows (K when K divides R).
C3_FileSizes ==
    RunCompleted =>
        \A j \in DOMAIN files :
            Len(files[j].rows) =
                IF j < N \/ R % K = 0 THEN K ELSE R % K

\* C4: the file of index j holds exactly input rows (j-1)*K+1 .. min(j*K, R),
\* in input order (positions (j-1)*K .. min(j*K, R)-1 counted from 0).
C4_FileContents ==
    RunCompleted =>
        \A j \in DOMAIN files :
            [k \in 1..Len(files[j].rows) |-> files[j].rows[k].row]
                = [k \in 1..(Min(j * K, R) - (j - 1) * K) |-> (j - 1) * K + k - 1]

\* C5: the allocator is constructed with exactly 1..ceil(R/K), hands out each
\* of these once, and is empty when a run without failures completes.
C5_AllocatorExact ==
    /\ pc # "setup" => drawn \o shared_indexes = [k \in 1..N |-> k]
    /\ RunCompleted => shared_indexes = <<>>

\* C6: for any number of concurrent callers of the pop block against 1..N,
\* every pop removes and returns the smallest index left (or none when the
\* list is empty), no index is returned twice, none is skipped, and once all
\* of T >= N callers have returned the indices returned are exactly 1..N.
Returned == { threads[t].index_value : t \in DOMAIN threads } \ {None}

C6_State ==
    /\ \A t, u \in DOMAIN threads :
          (t # u /\ threads[t].index_value # None)
              => threads[t].index_value # threads[u].index_value
    /\ Returned = 1..Cardinality(Returned)
    /\ Returned \cup Range(shared_indexes) = 1..num_csv_files
    /\ Returned \cap Range(shared_indexes) = {}
    /\ ( /\ \A t \in DOMAIN threads : threads[t].pc \notin {"lock", "pop"}
         /\ Cardinality(DOMAIN threads) >= num_csv_files )
       => Returned = 1..num_csv_files

C6_Step ==
    \A t \in DOMAIN threads :
        (threads[t].pc = "pop" /\ threads'[t].pc = "create") =>
            IF shared_indexes = <<>>
              THEN threads'[t].index_value = None /\ shared_indexes' = <<>>
              ELSE /\ threads'[t].index_value \in Range(shared_indexes)
                   /\ \A n \in Range(shared_indexes) : threads'[t].index_value <= n
                   /\ Range(shared_indexes') =
                        Range(shared_indexes) \ {threads'[t].index_value}
                   /\ Len(shared_indexes') = Len(shared_indexes) - 1

C6_TakeSmallest == []C6_State /\ [][C6_Step]_vars

C6_Witness ==
    /\ pc = "harness"
    /\ Cardinality(DOMAIN threads) = 3
    /\ num_csv_files = 2
    /\ \A t \in DOMAIN threads : threads[t].pc \notin {"lock", "pop"}
    /\ \E t \in DOMAIN threads : threads[t].index_value = None
    /\ Returned = {1, 2}

\* C7: if the write of a sub-chunk fails (the file cannot be created or the
\* write fails), the run does not end with a success result.
C7_WriteFailureSurfaced ==
    (pc = "done" /\ panics > 0) => result # "Ok"

\* C8: if reading a batch fails, the run ends with an error result, not with
\* success and a partial set of output files.
C8_ReadFailureSurfaced ==
    (pc = "done" /\ read_error) => result # "Ok"

\* C9: the configured kinds are applied to every batch in the fixed order
\* uppercase, lowercase, normalize, titlecase.
FixedOrder == <<"to_uppercase", "to_lowercase", "to_normalized", "to_titlecase">>

IsConfigured(key) == key \in DOMAIN transformations

C9_FixedOrder ==
    pc \in {"spawn", "join"} =>
        df = apply_kinds(SelectSeq(FixedOrder, IsConfigured), 1, transformations,
                         read_rows(csv_rows, skip_rows - chunck_size, chunck_size)).df

\* C10: whenever a transform list names a column the input does not have, the
\* run ends with an error result and no output file, also for an input of a
\* header and zero data rows.
NamesUnknownColumn ==
    \E key \in DOMAIN transformations :
        \E k \in 1..Len(transformations[key]) :
            transformations[key][k] \notin Columns

C10_UnknownColumnAborts ==
    (pc = "done" /\ ~read_error /\ NamesUnknownColumn) =>
        (result = "Err" /\ DOMAIN files = {})

\* C11: for an input of a header line and zero data rows the run spawns no
\* writer thread, produces no output file, and ends with exit 0.
C11_HeaderOnly ==
    R = 0 =>
        /\ pc \in {"setup", "next", "done"}
        /\ DOMAIN threads = {}
        /\ DOMAIN files = {}
        /\ drawn = <<>>
        /\ batch_no = 0
        /\ pc = "done" => result = "Ok"

C11_Witness ==
    /\ R = 0
    /\ pc = "done"
    /\ result = "Ok"
    /\ ~read_error
    /\ DOMAIN files = {}

\* C12: batches are processed one after another: every writer thread of a
\* batch has terminated (done or panicked) before the next batch is read and
\* before a writer of the next batch is spawned; writers of two batches are
\* never alive together.
Terminated(t) == threads[t].pc \in {"done", "panicked"}

Live == { t \in DOMAIN threads : ~Terminated(t) }

C12_State ==
    pc \in {"setup", "next", "transform", "done"} => DOMAIN threads = {}

C12_Step ==
    /\ (pc = "join" /\ pc' # "join") => \A t \in DOMAIN threads : Terminated(t)
    /\ batch_no' # batch_no => DOMAIN threads = {}
    /\ (pc = "spawn" /\ i = 0 /\ DOMAIN threads' # {}) => DOMAIN threads = {}

C12_BatchesSequential == []C12_State /\ [][C12_Step]_vars

C12_Witness ==
    /\ pc = "spawn"
    /\ batch_no = 2
    /\ panics = 1
    /\ DOMAIN threads # {}

\* C13: the reader's cursor starts at 0; the b-th batch yielded (b = 0, 1, ..)
\* holds exactly input rows b*chunck_size .. min((b+1)*chunck_size, R)-1; the
\* reader reports end of input on the first call whose read yields no row.
\* Original claim: the cursor grows by chunck_size on every call to next.
\* Amended: it grows by chunck_size on every call whose read succeeds.
RowIds(frame) == [k \in 1..Len(frame) |-> frame[k].row]

BatchRowIds(b) ==
    [k \in 1..(Min((b + 1) * chunck_size, R) - b * chunck_size)
        |-> b * chunck_size + k - 1]

C13_State ==
    /\ (pc = "setup" \/ (pc = "next" /\ batch_no = 0)) => skip_rows = 0
    /\ pc \in {"transform", "spawn", "join"} =>
        /\ batch_no >= 1
        /\ Len(df) > 0
        /\ RowIds(df) = BatchRowIds(batch_no - 1)

\* A call to next leaves pc = "next".
CallReturns == pc = "next" /\ pc' # "next"

C13_EndOfInput ==
    (CallReturns /\ ~read_error') =>
        (pc' = "done" <=> batch_no * chunck_size >= R)

C13_GrowsWhenReadSucceeds ==
    (CallReturns /\ ~read_error') => skip_rows' = skip_rows + chunck_size

C13_GrowsEveryCall ==
    CallReturns => skip_rows' = skip_rows + chunck_size

C13_Cursor ==
    []C13_State /\ [][C13_EndOfInput /\ C13_GrowsWhenReadSucceeds]_vars

C13_CursorEveryCall ==
    []C13_State /\ [][C13_EndOfInput /\ C13_GrowsEveryCall]_vars

C13_Witness ==
    /\ pc = "done"
    /\ ~read_error
    /\ batch_no = 3
    /\ skip_rows = 4 * chunck_size

\* C14: whenever a writer draws an index the list is non-empty, so no writer
\* ever gets None: the writers spawned over the whole run never outnumber the
\* indices the list was seeded with.
NotYetPopped ==
    { t \in DOMAIN threads : threads[t].pc \in {"slice", "lock", "pop"} }

C14_NeverExhausted ==
    /\ \A k \in 1..Len(drawn) : drawn[k] # None
    /\ \A t \in DOMAIN threads \ NotYetPopped : threads[t].index_value # None
    /\ Cardinality(NotYetPopped) <= Len(shared_indexes)
    /\ pc # "setup" =>
        Len(drawn) + Cardinality(NotYetPopped) <= num_csv_files

C14_Witness ==
    /\ pc = "join"
    /\ batch_no = 2
    /\ shared_indexes = <<>>
    /\ Len(drawn) = num_csv_files
    /\ NotYetPopped = {}

\* C15: batch boundaries do not show in the output: every batch but the final
\* one holds a multiple of K rows, at most one output file holds fewer than K
\* rows and it holds the final R mod K rows, and the row groups written are
\* those of a split of the whole input by K.
Group(g) == [k \in 1..(Min(g * K, R) - (g - 1) * K) |-> (g - 1) * K + k - 1]

ShortFiles == { j \in DOMAIN files : Len(files[j].rows) < K }

C15_NoBatchBoundaries ==
    /\ (pc \in {"transform", "spawn", "join"} /\ batch_no * K * BatchFactor < R)
          => Len(df) % K = 0
    /\ RunCompleted =>
        /\ Cardinality(ShortFiles) <= 1
        /\ \A j \in ShortFiles :
              RowIds(files[j].rows) = [k \in 1..(R % K) |-> R - (R % K) + k - 1]
        /\ Cardinality(DOMAIN files) = N
        /\ { RowIds(files[j].rows) : j \in DOMAIN files } = { Group(g) : g \in 1..N }

C15_Witness ==
    /\ RunCompleted
    /\ K = 2
    /\ R = 5
    /\ batch_no = 2
    /\ Cardinality(ShortFiles) = 1

\* C16: with every thread eventually scheduled, the run terminates; when no
\* read fails and every transform column exists, it has processed exactly
\* ceil(R / (BatchFactor * K)) non-empty batches and returns success.
C16_Terminates ==
    /\ <>(pc = "done")
    /\ []((pc = "done" /\ ~read_error /\ ~NamesUnknownColumn) =>
            (result = "Ok" /\ batch_no = Ceil(R, K * BatchFactor)))

C16_Witness ==
    /\ pc = "done"
    /\ result = "Ok"
    /\ ~read_error
    /\ panics = 1
    /\ batch_no = 3
    /\ R = 5

\* C17: a writer fails only while it does not hold the mutex; the mutex is
\* held only for the is-empty test and the removal of the first index, so it
\* is never left held by a failed writer, and a failed writer stops neither
\* its siblings nor the writers of later batches from drawing an index and
\* writing their file.
WrittenFiles == { j \in DOMAIN files : files[j].header }

C17_State ==
    /\ Cardinality(lock) <= 1
    /\ \A t \in lock : t \in DOMAIN threads /\ threads[t].pc = "pop"
    /\ \A t \in DOMAIN threads : threads[t].pc = "pop" => lock = {t}
    /\ pc \in {"setup", "next", "transform", "done"} => lock = {}
    /\ (pc = "done" /\ result = "Ok" /\ ~read_error) =>
        /\ Len(drawn) = N
        /\ Cardinality(WrittenFiles) = N - panics

C17_Step ==
    \A t \in DOMAIN threads \cap DOMAIN threads' :
        (threads[t].pc # "panicked" /\ threads'[t].pc = "panicked") =>
            (t \notin lock /\ t \notin lock')

C17_FailsOutsideLock ==
    /\ []C17_State
    /\ [][C17_Step]_vars
    /\ (panics > 0) ~> (pc = "done")

C17_Witness ==
    /\ pc = "done"
    /\ panics = 1
    /\ batch_no = 2
    /\ R = 4
    /\ K = 1
    /\ Cardinality(WrittenFiles) = 3
    /\ 1 \notin WrittenFiles

BatchIndexes(b) == (BatchFactor * b + 1)..(BatchFactor * b + total_chunks)

Held == { threads[t].index_value : t \in DOMAIN threads \ NotYetPopped }

C19_BatchIndexRanges ==
    /\ \A k \in 1..Len(drawn) : drawn[k] = k
    /\ pc \in {"spawn", "join"} =>
        /\ Held \subseteq BatchIndexes(batch_no - 1)
        /\ Len(drawn) =
              BatchFactor * (batch_no - 1) + Cardinality(DOMAIN threads \ NotYetPopped)
        /\ (pc = "join" /\ NotYetPopped = {}) => Held = BatchIndexes(batch_no - 1)
    /\ \A j \in DOMAIN files :
        \A k \in 1..Len(files[j].rows) :
            files[j].rows[k].row \div (K * BatchFactor) = (j - 1) \div BatchFactor

C19_Witness ==
    /\ pc = "join"
    /\ batch_no = 2
    /\ K = 1
    /\ R = 4
    /\ \A t \in DOMAIN threads : threads[t].pc = "done"
    /\ threads[0].index_value = 4
    /\ threads[1].index_value = 3

====
